---------------------------- MODULE Spec2Model ----------------------------
(***************************************************************************)
(* License Veryfire (src/main.py): the /verify request handler             *)
(* verify_license and its URL check validate_and_map_url.                  *)
(*                                                                         *)
(* Strings the code inspects character by character (URLs) are sequences   *)
(* of one-character strings.  A text is the sequence of its lines, as      *)
(* str.splitlines() returns it.  A file name is a sequence of name pieces  *)
(* (<<"MIT", ".txt">> is MIT.txt) so that f"{spdx_id}.txt" is a            *)
(* concatenation; a path is a sequence of file names.                      *)
(***************************************************************************)
EXTENDS Integers, Sequences, FiniteSets

VARIABLES
    pc,                  \* position of the handler: start, fetch, select, open, compare, done
    license_url_in,      \* form field license_url as submitted
    license_url,         \* local license_url after line 85
    manual_license,      \* form field manual_license ("" and None are <<>>)
    requested,           \* URLs handed to requests.get, in order
    fetched_license,     \* response.text as lines, or NoText
    licenses_detected,   \* licenses_detected["licenses"], keys in iteration order
    spdx_id,             \* first detected SPDX id, or NoId
    reference_file_path, \* path of the reference file, or NoPath
    reference_license,   \* text of the reference file, or NoText
    diff,                \* rows of the table make_table builds, or NoDiff
    outcome,             \* how the request ended, or NoOutcome
    prev                 \* the previous finished request (what its caller saw)

vars == <<pc, license_url_in, license_url, manual_license, requested,
          fetched_license, licenses_detected, spdx_id, reference_file_path,
          reference_license, diff, outcome, prev>>

(***************************************************************************)
(* Bounds of the model.                                                    *)
(***************************************************************************)
MaxSegs == 4

MaxLines == 5

MaxDetected == 2

(***************************************************************************)
(* Character strings.                                                      *)
(***************************************************************************)
UpperChars == <<"A","B","C","D","E","F","G","H","I","J","K","L","M",
                "N","O","P","Q","R","S","T","U","V","W","X","Y","Z">>

LowerChars == <<"a","b","c","d","e","f","g","h","i","j","k","l","m",
                "n","o","p","q","r","s","t","u","v","w","x","y","z">>

\* str.lower() on one character
LowerChar(c) ==
    IF \E i \in DOMAIN UpperChars : UpperChars[i] = c
    THEN LowerChars[CHOOSE i \in DOMAIN UpperChars : UpperChars[i] = c]
    ELSE c

\* str.lower()
Lower(s) == [i \in DOMAIN s |-> LowerChar(s[i])]

\* str.endswith(suffix)
EndsWith(s, suffix) ==
    /\ Len(s) >= Len(suffix)
    /\ SubSeq(s, Len(s) - Len(suffix) + 1, Len(s)) = suffix

\* sub in s
Contains(s, sub) ==
    \E i \in 1..(Len(s) + 1) :
        /\ i + Len(sub) - 1 <= Len(s)
        /\ SubSeq(s, i, i + Len(sub) - 1) = sub

\* str.replace(old, new): every non-overlapping occurrence, left to right
RECURSIVE Replace(_, _, _)
Replace(s, old, new) ==
    IF Len(s) < Len(old) THEN s
    ELSE IF SubSeq(s, 1, Len(old)) = old
         THEN new \o Replace(SubSeq(s, Len(old) + 1, Len(s)), old, new)
         ELSE <<s[1]>> \o Replace(Tail(s), old, new)

(***************************************************************************)
(* validate_and_map_url                                                    *)
(***************************************************************************)
valid_patterns ==
    << <<"L","I","C","E","N","S","E">>, <<"L","I","C","E","N","C","E">>,
       <<"l","i","c","e","n","s","e">>, <<"l","i","c","e","n","c","e">> >>

valid_extensions == << <<".","t","x","t">>, <<".","m","d">>, <<>> >>

GithubHost == <<"g","i","t","h","u","b",".","c","o","m">>

RawHost == <<"r","a","w",".","g","i","t","h","u","b","u","s","e","r",
             "c","o","n","t","e","n","t",".","c","o","m">>

BlobSlash == <<"b","l","o","b","/">>

\* the URL's own case is ignored: the comparison is made on the bare string
HasValidEndingCaseSensitive(url) ==
    \E p \in DOMAIN valid_patterns : \E e \in DOMAIN valid_extensions :
        EndsWith(url, valid_patterns[p] \o valid_extensions[e])

\* line 154: any(url.lower().endswith(pattern.lower() + ext) ...)
HasValidEnding(url) ==
    \E p \in DOMAIN valid_patterns : \E e \in DOMAIN valid_extensions :
        EndsWith(Lower(url), Lower(valid_patterns[p]) \o valid_extensions[e])

\* lines 161-162: the mapping to the raw host
MapUrl(url) ==
    IF Contains(url, GithubHost)
    THEN Replace(Replace(url, GithubHost, RawHost), BlobSlash, <<>>)
    ELSE url

\* the function's result: an HTTPException (ok = FALSE) or the returned URL
validate_and_map_url(url) ==
    IF ~HasValidEnding(url)
    THEN [ok |-> FALSE, url |-> <<>>]
    ELSE [ok |-> TRUE, url |-> MapUrl(url)]

(***************************************************************************)
(* The comparison: difflib.HtmlDiff().make_table(reference, fetched,       *)
(* context=True, numlines=3).  Lines are compared as wholes; two different *)
(* lines are taken to have nothing in common, so a replaced block is       *)
(* dumped as deletions and insertions.                                     *)
(***************************************************************************)
numlines == 3

None == [num |-> -1, text |-> "None"]

\* the ('', '\n') entry that pads the shorter side of a changed block
BlankLine == [num |-> 0, text |-> "\n"]

\* length of the run a[i..] = b[j..] inside a[..ahi-1], b[..bhi-1]
RECURSIVE MatchLen(_, _, _, _, _, _)
MatchLen(a, b, i, j, ahi, bhi) ==
    IF i < ahi /\ j < bhi /\ a[i] = b[j]
    THEN 1 + MatchLen(a, b, i + 1, j + 1, ahi, bhi)
    ELSE 0

\* SequenceMatcher.find_longest_match: the longest block, of those the one
\* starting earliest in a, of those the one starting earliest in b
LongestMatch(a, b, alo, ahi, blo, bhi) ==
    LET starts == (alo..(ahi - 1)) \X (blo..(bhi - 1))
        len(p) == MatchLen(a, b, p[1], p[2], ahi, bhi)
    IN  IF \A p \in starts : len(p) = 0
        THEN <<alo, blo, 0>>
        ELSE LET best == CHOOSE p \in starts :
                            \A q \in starts :
                                \/ len(q) < len(p)
                                \/ /\ len(q) = len(p)
                                   /\ \/ p[1] < q[1]
                                      \/ p[1] = q[1] /\ p[2] <= q[2]
             IN  <<best[1], best[2], len(best)>>

\* Differ._dump
Dump(tag, x, lo, hi) == [k \in 1..(hi - lo) |-> [tag |-> tag, text |-> x[lo + k - 1]]]

\* Differ._plain_replace, and the delete and insert opcodes
PlainReplace(a, alo, ahi, b, blo, bhi) ==
    IF bhi - blo < ahi - alo
    THEN Dump("+", b, blo, bhi) \o Dump("-", a, alo, ahi)
    ELSE Dump("-", a, alo, ahi) \o Dump("+", b, blo, bhi)

\* difflib.ndiff: the lines of Differ.compare over the matching blocks
RECURSIVE Ndiff(_, _, _, _, _, _)
Ndiff(a, b, alo, ahi, blo, bhi) ==
    LET m == LongestMatch(a, b, alo, ahi, blo, bhi)
    IN  IF m[3] = 0
        THEN PlainReplace(a, alo, ahi, b, blo, bhi)
        ELSE Ndiff(a, b, alo, m[1], blo, m[2])
             \o Dump(" ", a, m[1], m[1] + m[3])
             \o Ndiff(a, b, m[1] + m[3], ahi, m[2] + m[3], bhi)

\* the rows that catch up on pending blank lines
BlankRows(n) ==
    IF n < 0
    THEN [k \in 1..(0 - n) |-> [from |-> None, to |-> BlankLine, flag |-> TRUE]]
    ELSE [k \in 1..n |-> [from |-> BlankLine, to |-> None, flag |-> TRUE]]

\* _mdiff._line_iterator over ndiff lines d from position k; pending is
\* num_blanks_pending, fn and tn the line numbers given so far
RECURSIVE LineIterator(_, _, _, _, _)
LineIterator(d, k, pending, fn, tn) ==
    LET T(i) == IF i <= Len(d) THEN d[i].tag ELSE "X"
        del == [from |-> [num |-> fn + 1, text |-> d[k].text], to |-> None, flag |-> TRUE]
        add == [from |-> None, to |-> [num |-> tn + 1, text |-> d[k].text], flag |-> TRUE]
        same == [from |-> [num |-> fn + 1, text |-> d[k].text],
                 to |-> [num |-> tn + 1, text |-> d[k].text], flag |-> FALSE]
    IN  CASE T(k) = "X" -> BlankRows(pending)
          [] T(k) = "-" ->
                IF T(k + 1) = "-" /\ T(k + 2) = "+" /\ T(k + 3) = "+"
                THEN <<del>> \o LineIterator(d, k + 1, pending - 1, fn + 1, tn)
                ELSE IF (T(k + 1) = "-" /\ T(k + 2) = "+") \/ T(k + 1) = " "
                THEN BlankRows(pending - 1) \o <<del>>
                     \o LineIterator(d, k + 1, 0, fn + 1, tn)
                ELSE <<del>> \o LineIterator(d, k + 1, pending - 1, fn + 1, tn)
          [] T(k) = "+" ->
                IF T(k + 1) = "-" /\ T(k + 2) = "-"
                THEN <<add>> \o LineIterator(d, k + 1, pending + 1, fn, tn + 1)
                ELSE IF T(k + 1) = " " \/ T(k + 1) = "-"
                THEN BlankRows(pending + 1) \o <<add>>
                     \o LineIterator(d, k + 1, 0, fn, tn + 1)
                ELSE <<add>> \o LineIterator(d, k + 1, pending + 1, fn, tn + 1)
          [] OTHER -> <<same>> \o LineIterator(d, k + 1, pending, fn + 1, tn + 1)

\* the entries of one side of the line iterator's output, each with its flag
RECURSIVE SideEntries(_, _)
SideEntries(rows, side) ==
    IF rows = <<>> THEN <<>>
    ELSE LET r == Head(rows)
             e == IF side = "from" THEN r.from ELSE r.to
         IN  (IF e = None THEN <<>> ELSE << [line |-> e, flag |-> r.flag] >>)
             \o SideEntries(Tail(rows), side)

\* _mdiff._line_pair_iterator: from and to entries paired in order until
\* one side runs out
LinePairs(rows) ==
    LET f == SideEntries(rows, "from")
        t == SideEntries(rows, "to")
        n == IF Len(f) < Len(t) THEN Len(f) ELSE Len(t)
    IN  [k \in 1..n |-> [from |-> f[k].line, to |-> t[k].line,
                         flag |-> f[k].flag \/ t[k].flag]]

\* _mdiff with context=None: every line pair
FullRows(a, b) ==
    LinePairs(LineIterator(Ndiff(a, b, 1, Len(a) + 1, 1, Len(b) + 1), 1, 0, 0, 0))

\* _mdiff's context loop from row p on.  index counts the rows read since
\* the last change's context ended (the circular queue holds the last
\* `context` of them); towrite > 0 is the trailing context still to yield.
RECURSIVE ContextFrom(_, _, _, _, _)
ContextFrom(rows, context, p, index, towrite) ==
    IF p > Len(rows) THEN <<>>
    ELSE IF towrite > 0
    THEN <<rows[p]>> \o
         (IF rows[p].flag
          THEN ContextFrom(rows, context, p + 1, 0, context - 1)
          ELSE ContextFrom(rows, context, p + 1, 0, towrite - 1))
    ELSE IF ~rows[p].flag
    THEN ContextFrom(rows, context, p + 1, index + 1, 0)
    ELSE LET kept == IF index + 1 > context THEN context ELSE index + 1
         IN  SubSeq(rows, p - kept + 1, p)
             \o ContextFrom(rows, context, p + 1, 0, context - 1)

\* a make_table that ignores context and numlines
AllRows(rows, ctx, n) == rows

\* lines 1967-1971 of make_table: context_lines = numlines when context is
\* set, and _mdiff then works with context_lines + 1
ContextRows(rows, ctx, n) ==
    IF ctx THEN ContextFrom(rows, n + 1, 1, 0, 0) ELSE rows

\* lines 120-127
MakeTable(reference, fetched) == ContextRows(FullRows(reference, fetched), TRUE, numlines)

(***************************************************************************)
(* The files next to the program, and os.path.                             *)
(***************************************************************************)
BASE_DIR == << <<"app">> >>

\* line 22
LICENSES_DIR == BASE_DIR \o << <<"licenses">> >>

DotDot == <<"..">>

NoText == <<"NoText">>

NoId == <<"NoId">>

NoPath == << <<"NoPath">> >>

NoDiff == << [from |-> None, to |-> None, flag |-> FALSE] >>

NoOutcome == "NoOutcome"

\* what is on disk: the licenses folder with two reference files and a
\* subfolder, and the program's own source beside it
FileSystem ==
    { [path |-> BASE_DIR, kind |-> "dir", text |-> NoText],
      [path |-> LICENSES_DIR, kind |-> "dir", text |-> NoText],
      [path |-> LICENSES_DIR \o << <<"MIT", ".txt">> >>, kind |-> "file",
       text |-> <<"a", "a", "b">>],
      [path |-> LICENSES_DIR \o << <<"BSD", ".txt">> >>, kind |-> "file",
       text |-> <<"b", "a">>],
      [path |-> LICENSES_DIR \o << <<"archive">> >>, kind |-> "dir", text |-> NoText],
      [path |-> LICENSES_DIR \o << <<"archive">>, <<"Old", ".txt">> >>, kind |-> "file",
       text |-> <<"a">>],
      [path |-> BASE_DIR \o << <<"main", ".py">> >>, kind |-> "file",
       text |-> <<"b", "b">>] }

\* os.path.join(base, name), name a relative path
PathJoin(base, name) == base \o name

\* the file a path names once its ".." components are followed
RECURSIVE Resolve(_, _)
Resolve(done, rest) ==
    IF rest = <<>> THEN done
    ELSE IF Head(rest) = DotDot
         THEN Resolve(IF done = <<>> THEN <<>> ELSE SubSeq(done, 1, Len(done) - 1),
                      Tail(rest))
         ELSE Resolve(Append(done, Head(rest)), Tail(rest))

\* os.path.exists(path)
PathExists(path) == \E f \in FileSystem : f.path = Resolve(<<>>, path)

\* os.path.isfile(path)
IsFile(path) == \E f \in FileSystem : f.path = Resolve(<<>>, path) /\ f.kind = "file"

\* f.read().splitlines() of an existing regular file
FileText(path) == (CHOOSE f \in FileSystem : f.path = Resolve(<<>>, path)).text

\* lines 51-52 of home(): the options of the manual_license dropdown
license_files ==
    { f.path[Len(f.path)] : f \in { g \in FileSystem :
        /\ g.kind = "file"
        /\ Len(g.path) = Len(LICENSES_DIR) + 1
        /\ SubSeq(g.path, 1, Len(LICENSES_DIR)) = LICENSES_DIR } }

(***************************************************************************)
(* The request handler verify_license, one action per step.                *)
(***************************************************************************)
\* `if manual_license:` : None and "" take the auto-detect branch
ManualGiven(m) == m # <<>>

\* a reference path that forgets the ".txt" of the reference files
DetectedPathBare(id) == PathJoin(LICENSES_DIR, <<id>>)

\* line 97
ManualPath(m) == PathJoin(LICENSES_DIR, m)

\* line 112: os.path.join(LICENSES_DIR, f"{spdx_id}.txt")
DetectedPath(id) == PathJoin(LICENSES_DIR, <<id \o <<".txt">> >>)

\* the last key of the mapping instead of the first
LastKey(detected) == detected[Len(detected)].id

\* line 109: next(iter(licenses_detected["licenses"].keys()))
FirstKey(detected) == detected[1].id

\* no check of the URL: every URL goes on to the fetch
ValidateNoCheck ==
    /\ pc = "start"
    /\ license_url' = MapUrl(license_url_in)
    /\ pc' = "fetch"
    /\ UNCHANGED <<license_url_in, manual_license, requested, fetched_license,
                   licenses_detected, spdx_id, reference_file_path,
                   reference_license, diff, outcome, prev>>

\* line 85
Validate ==
    /\ pc = "start"
    /\ LET r == validate_and_map_url(license_url_in)
       IN  IF r.ok
           THEN /\ license_url' = r.url
                /\ pc' = "fetch"
                /\ outcome' = outcome
           ELSE /\ license_url' = license_url
                /\ pc' = "done"
                /\ outcome' = "InvalidLicenseURL"
    /\ UNCHANGED <<license_url_in, manual_license, requested, fetched_license,
                   licenses_detected, spdx_id, reference_file_path,
                   reference_license, diff, prev>>

\* what the remote server may answer: a text, or a failure
FetchedTexts == { <<"a", "a", "b">>, <<"a", "b", "b">> }

\* lines 88-93
Fetch ==
    /\ pc = "fetch"
    /\ requested' = Append(requested, license_url)
    /\ \/ /\ fetched_license' \in FetchedTexts
          /\ pc' = "select"
          /\ outcome' = outcome
       \/ /\ fetched_license' = fetched_license
          /\ pc' = "done"
          /\ outcome' = "FetchFailed"
    /\ UNCHANGED <<license_url_in, license_url, manual_license, licenses_detected,
                   spdx_id, reference_file_path, reference_license, diff, prev>>

\* no look at whether the reference file exists
SelectManualNoCheck ==
    /\ pc = "select"
    /\ ManualGiven(manual_license)
    /\ reference_file_path' = ManualPath(manual_license)
    /\ pc' = "open"
    /\ UNCHANGED <<license_url_in, license_url, manual_license, requested,
                   fetched_license, licenses_detected, spdx_id, reference_license,
                   diff, outcome, prev>>

\* lines 96-99
SelectManual ==
    /\ pc = "select"
    /\ ManualGiven(manual_license)
    /\ reference_file_path' = ManualPath(manual_license)
    /\ IF PathExists(ManualPath(manual_license))
       THEN pc' = "open" /\ outcome' = outcome
       ELSE pc' = "done" /\ outcome' = "UnknownManualLicense"
    /\ UNCHANGED <<license_url_in, license_url, manual_license, requested,
                   fetched_license, licenses_detected, spdx_id, reference_license,
                   diff, prev>>

\* the identifiers spdx_matcher knows
SpdxIds == { <<"MIT">>, <<"BSD">>, <<"GPL">> }

Scores == 1..2

\* what spdx_matcher.analyse_license_text may return under "licenses": the
\* matched licenses, each once, in the mapping's iteration order
Detections ==
    { d \in UNION { [1..n -> [id : SpdxIds, score : Scores]] : n \in 0..MaxDetected } :
        \A i, j \in DOMAIN d : i # j => d[i].id # d[j].id }

\* when nothing is detected, MIT is taken
DetectWithDefault ==
    /\ pc = "select"
    /\ ~ManualGiven(manual_license)
    /\ \E d \in Detections :
        /\ licenses_detected' = d
        /\ LET id == IF d = <<>> THEN <<"MIT">> ELSE FirstKey(d)
           IN  /\ spdx_id' = id
               /\ reference_file_path' = DetectedPath(id)
               /\ IF PathExists(DetectedPath(id))
                  THEN pc' = "open" /\ outcome' = outcome
                  ELSE pc' = "done" /\ outcome' = "ReferenceNotFound"
    /\ UNCHANGED <<license_url_in, license_url, manual_license, requested,
                   fetched_license, reference_license, diff, prev>>

\* lines 101-114
Detect ==
    /\ pc = "select"
    /\ ~ManualGiven(manual_license)
    /\ \E d \in Detections :
        /\ licenses_detected' = d
        /\ IF d = <<>>
           THEN /\ pc' = "done"
                /\ outcome' = "NoMatch"
                /\ UNCHANGED <<spdx_id, reference_file_path>>
           ELSE /\ spdx_id' = FirstKey(d)
                /\ reference_file_path' = DetectedPath(FirstKey(d))
                /\ IF PathExists(DetectedPath(FirstKey(d)))
                   THEN pc' = "open" /\ outcome' = outcome
                   ELSE pc' = "done" /\ outcome' = "ReferenceNotFound"
    /\ UNCHANGED <<license_url_in, license_url, manual_license, requested,
                   fetched_license, reference_license, diff, prev>>

\* lines 116-117: open() raises on a path that is no regular file, and
\* nothing catches it
ReadReference ==
    /\ pc = "open"
    /\ IF IsFile(reference_file_path)
       THEN /\ reference_license' = FileText(reference_file_path)
            /\ pc' = "compare"
            /\ outcome' = outcome
       ELSE /\ reference_license' = reference_license
            /\ pc' = "done"
            /\ outcome' = "ServerError"
    /\ UNCHANGED <<license_url_in, license_url, manual_license, requested,
                   fetched_license, licenses_detected, spdx_id,
                   reference_file_path, diff, prev>>

\* lines 120-145
Compare ==
    /\ pc = "compare"
    /\ diff' = MakeTable(reference_license, fetched_license)
    /\ pc' = "done"
    /\ outcome' = "Success"
    /\ UNCHANGED <<license_url_in, license_url, manual_license, requested,
                   fetched_license, licenses_detected, spdx_id,
                   reference_file_path, reference_license, prev>>

(***************************************************************************)
(* The requests a client may send.                                         *)
(***************************************************************************)
Scheme == <<"h","t","t","p","s",":","/","/">>

OtherHost == <<"x",".","i","o">>

Hosts == { GithubHost, RawHost, OtherHost }

Dirs == { <<"o">>, <<"b","l","o","b">>, <<"n","b","l","o","b">>, GithubHost }

Files == { <<"L","I","C","E","N","S","E">>,
           <<"L","i","c","e","n","c","e",".","m","d">>,
           <<"l","i","c","e","n","s","e",".","t","x","t">>,
           <<"U","N","L","I","C","E","N","S","E">>,
           <<"R","E","A","D","M","E",".","m","d">> }

Queries == { <<>>, <<"a">> }

RECURSIVE JoinDirs(_)
JoinDirs(segs) ==
    IF segs = <<>> THEN <<>> ELSE <<"/">> \o Head(segs) \o JoinDirs(Tail(segs))

\* https://<host>/<dir>/.../<file>[?<query>]
Render(host, segs, file, query) ==
    Scheme \o host \o JoinDirs(segs) \o <<"/">> \o file
    \o (IF query = <<>> THEN <<>> ELSE <<"?">> \o query)

Urls ==
    { Render(h, segs, f, q) :
        h \in Hosts,
        segs \in UNION { [1..n -> Dirs] : n \in 0..MaxSegs },
        f \in Files, q \in Queries }

\* the URLs the handler is run on: a web-UI URL, a raw URL, a wrong one
RequestUrls ==
    { Render(GithubHost, << <<"o">>, <<"o">>, <<"b","l","o","b">>, <<"o">> >>,
             <<"L","I","C","E","N","S","E">>, <<>>),
      Render(RawHost, << <<"o">>, <<"o">>, <<"o">> >>,
             <<"l","i","c","e","n","s","e",".","t","x","t">>, <<>>),
      Render(OtherHost, <<>>, <<"R","E","A","D","M","E",".","m","d">>, <<>>) }

\* the manual_license values a form post may carry
ManualInputs ==
    { <<>>,
      << <<"MIT", ".txt">> >>,
      << <<"BSD", ".txt">> >>,
      << <<"MIT">> >>,
      << <<"GPL", ".txt">> >>,
      << <<"Apache-2.0">> >>,
      << DotDot, <<"main", ".py">> >>,
      << <<"archive">> >> }

Lines == { "a", "b" }

Texts == UNION { [1..n -> Lines] : n \in 0..MaxLines }

NoPrev ==
    [url |-> <<>>, manual |-> <<>>, fetched |-> NoText, outcome |-> NoOutcome,
     spdx_id |-> NoId, reference |-> NoText, diff |-> NoDiff]

\* the handler's locals before line 85
Fresh ==
    /\ license_url = <<>>
    /\ requested = <<>>
    /\ fetched_license = NoText
    /\ licenses_detected = <<>>
    /\ spdx_id = NoId
    /\ reference_file_path = NoPath
    /\ reference_license = NoText
    /\ diff = NoDiff
    /\ outcome = NoOutcome

\* a POST /verify arrives
Init ==
    /\ pc = "start"
    /\ license_url_in \in RequestUrls
    /\ manual_license \in ManualInputs
    /\ prev = NoPrev
    /\ Fresh

\* the response is sent and the next POST /verify arrives
NewRequest ==
    /\ pc = "done"
    /\ prev' = [url |-> license_url_in, manual |-> manual_license,
                fetched |-> fetched_license, outcome |-> outcome,
                spdx_id |-> spdx_id, reference |-> reference_license,
                diff |-> diff]
    /\ pc' = "start"
    /\ license_url_in' \in RequestUrls
    /\ manual_license' \in ManualInputs
    /\ license_url' = <<>>
    /\ requested' = <<>>
    /\ fetched_license' = NoText
    /\ licenses_detected' = <<>>
    /\ spdx_id' = NoId
    /\ reference_file_path' = NoPath
    /\ reference_license' = NoText
    /\ diff' = NoDiff
    /\ outcome' = NoOutcome

Next ==
    \/ Validate
    \/ Fetch
    \/ SelectManual
    \/ Detect
    \/ ReadReference
    \/ Compare
    \/ NewRequest

Spec == Init /\ [][Next]_vars

\* validate_and_map_url alone, on every URL of Urls
InitUrl ==
    /\ pc = "start"
    /\ license_url_in \in Urls
    /\ manual_license = <<>>
    /\ prev = NoPrev
    /\ Fresh

SpecUrl == InitUrl /\ [][Validate]_vars

\* the comparison alone, on every pair of texts of Texts
InitDiff ==
    /\ pc = "compare"
    /\ license_url_in = <<>>
    /\ manual_license = <<>>
    /\ prev = NoPrev
    /\ license_url = <<>>
    /\ requested = <<>>
    /\ licenses_detected = <<>>
    /\ spdx_id = NoId
    /\ reference_file_path = NoPath
    /\ reference_license \in Texts
    /\ fetched_license \in Texts
    /\ diff = NoDiff
    /\ outcome = NoOutcome

SpecDiff == InitDiff /\ [][Compare]_vars

(***************************************************************************)
(* Reading a URL the way the properties speak of it: host, path segments.  *)
(***************************************************************************)
IndexOfChar(s, c) ==
    IF \E i \in DOMAIN s : s[i] = c
    THEN CHOOSE i \in DOMAIN s : s[i] = c /\ \A j \in 1..(i - 1) : s[j] # c
    ELSE Len(s) + 1

AfterScheme(url) == SubSeq(url, Len(Scheme) + 1, Len(url))

UrlHost(url) == SubSeq(AfterScheme(url), 1, IndexOfChar(AfterScheme(url), "/") - 1)

UrlPathAndQuery(url) ==
    SubSeq(AfterScheme(url), IndexOfChar(AfterScheme(url), "/"), Len(AfterScheme(url)))

UrlPath(url) ==
    SubSeq(UrlPathAndQuery(url), 1, IndexOfChar(UrlPathAndQuery(url), "?") - 1)

RECURSIVE PathSegments(_)
PathSegments(path) ==
    IF path = <<>> THEN <<>>
    ELSE LET t == Tail(path)
             k == IndexOfChar(t, "/")
         IN  <<SubSeq(t, 1, k - 1)>> \o PathSegments(SubSeq(t, k, Len(t)))

FinalSegment(url) == PathSegments(UrlPath(url))[Len(PathSegments(UrlPath(url)))]

\* LICENSE or LICENCE with no extension, .txt or .md, in lower case
LicenseFileNames ==
    { <<"l","i","c","e","n","s","e">>, <<"l","i","c","e","n","c","e">>,
      <<"l","i","c","e","n","s","e",".","t","x","t">>,
      <<"l","i","c","e","n","c","e",".","t","x","t">>,
      <<"l","i","c","e","n","s","e",".","m","d">>,
      <<"l","i","c","e","n","c","e",".","m","d">> }

Validated == pc # "start"

Accepted == pc # "start" /\ outcome # "InvalidLicenseURL"

(***************************************************************************)
(* C1                                                                      *)
(***************************************************************************)
\* C1 as stated: validate_and_map_url succeeds exactly when the URL's final
\* path segment is, ignoring case, LICENSE or LICENCE followed by no
\* extension, .txt or .md.
C1_FinalSegmentRule ==
    Validated =>
        (Accepted <=> Lower(FinalSegment(license_url_in)) \in LicenseFileNames)

\* C1 as amended: validate_and_map_url succeeds exactly when the whole URL
\* string, in lower case, ends with license or licence followed by nothing,
\* .txt or .md; every other URL ends the request with InvalidLicenseURL.
C1_UrlEndingRule ==
    Validated =>
        /\ Accepted <=> \E n \in LicenseFileNames : EndsWith(Lower(license_url_in), n)
        /\ ~Accepted => pc = "done"

\* a URL is accepted whose final segment only ends with the letters LICENSE
C1_Witness ==
    /\ Accepted
    /\ Lower(FinalSegment(license_url_in)) \notin LicenseFileNames

(***************************************************************************)
(* C2                                                                      *)
(***************************************************************************)
\* C2: an accepted URL whose host is not github.com is returned unchanged,
\* whatever text its path or query holds.
C2_OtherHostUnchanged ==
    (Accepted /\ UrlHost(license_url_in) # GithubHost) => license_url = license_url_in

(***************************************************************************)
(* C3                                                                      *)
(***************************************************************************)
WithoutThird(segs) == SubSeq(segs, 1, 2) \o SubSeq(segs, 4, Len(segs))

\* C3: an accepted https://github.com/<owner>/<repo>/blob/<ref>/<path> is
\* returned as https://raw.githubusercontent.com/<owner>/<repo>/<ref>/<path>,
\* every segment but the web-UI blob/ kept as it was.
C3_BlobUrlRewritten ==
    LET segs == PathSegments(UrlPath(license_url_in))
    IN  ( /\ Accepted
          /\ UrlHost(license_url_in) = GithubHost
          /\ Len(segs) >= 5
          /\ segs[3] = <<"b","l","o","b">> )
        => license_url = Scheme \o RawHost \o JoinDirs(WithoutThird(segs))

(***************************************************************************)
(* C4                                                                      *)
(***************************************************************************)
\* C4: after a successful fetch, a manual license that is not the name of
\* a regular file directly inside the licenses folder ends the request with
\* UnknownManualLicense, and no diff is produced.
C4_UnknownManualRejected ==
    ( /\ pc = "done"
      /\ fetched_license # NoText
      /\ ManualGiven(manual_license)
      /\ ~(Len(manual_license) = 1 /\ manual_license[1] \in license_files) )
    => (outcome = "UnknownManualLicense" /\ diff = NoDiff)

(***************************************************************************)
(* C5                                                                      *)
(***************************************************************************)
\* C5: a diff exists only once a reference text has been read, and a
\* request without manual license for which nothing was detected ends with
\* the no-match outcome, with no reference and no diff.
C5_NoDiffWithoutReference ==
    /\ diff # NoDiff => reference_license # NoText
    /\ ( /\ fetched_license # NoText
         /\ pc # "select"
         /\ ~ManualGiven(manual_license)
         /\ licenses_detected = <<>> )
       => /\ pc = "done"
          /\ outcome = "NoMatch"
          /\ reference_license = NoText
          /\ diff = NoDiff

\* auto-detection found nothing and the request ended with the no-match outcome
C5_Witness ==
    /\ pc = "done"
    /\ outcome = "NoMatch"
    /\ fetched_license # NoText
    /\ licenses_detected = <<>>

(***************************************************************************)
(* C6                                                                      *)
(***************************************************************************)
\* this request repeats the previous one but for the manual license
SameRequestAgain ==
    /\ pc = "done"
    /\ prev.outcome = "Success"
    /\ license_url_in = prev.url
    /\ fetched_license = prev.fetched

SameResult ==
    /\ outcome = "Success"
    /\ reference_license = prev.reference
    /\ diff = prev.diff

\* C6 as stated: the identifier auto-detection chose, given as the manual
\* license of an otherwise identical request, selects the same reference
\* text and gives the same diff.
C6_SameIdentifierSpace ==
    ( /\ SameRequestAgain
      /\ ~ManualGiven(prev.manual)
      /\ manual_license = <<prev.spdx_id>> )
    => SameResult

\* C6 as amended: manual selection takes the reference file's name and
\* auto-detection the SPDX id without ".txt".  The id auto-detection chose,
\* followed by ".txt", given as the manual license of an otherwise identical
\* request selects the same reference text and gives the same diff; and a
\* manual license <id>.txt that gave a diff gives the same reference and diff
\* as auto-detection choosing <id>.
C6_TxtIdentifierSpace ==
    /\ ( /\ SameRequestAgain
         /\ ~ManualGiven(prev.manual)
         /\ manual_license = << prev.spdx_id \o <<".txt">> >> )
       => SameResult
    /\ ( /\ SameRequestAgain
         /\ ~ManualGiven(manual_license)
         /\ spdx_id # NoId
         /\ prev.manual = << spdx_id \o <<".txt">> >> )
       => SameResult

\* an auto-detected request is repeated with <id>.txt as the manual license
C6_Witness ==
    /\ SameRequestAgain
    /\ ~ManualGiven(prev.manual)
    /\ manual_license = << prev.spdx_id \o <<".txt">> >>
    /\ outcome = "Success"

(***************************************************************************)
(* C7                                                                      *)
(***************************************************************************)
\* lexicographic order of the identifiers: BSD < GPL < MIT
IdRank(id) == CASE id = <<"BSD">> -> 1 [] id = <<"GPL">> -> 2 [] id = <<"MIT">> -> 3

\* the candidate with the maximum score, the lexicographically first of those
BestCandidate(detected) ==
    detected[CHOOSE i \in DOMAIN detected :
        \A j \in DOMAIN detected :
            \/ detected[j].score < detected[i].score
            \/ /\ detected[j].score = detected[i].score
               /\ IdRank(detected[i].id) <= IdRank(detected[j].id)].id

\* C7 as stated: of several candidates the one with the maximum score is
\* chosen, and of those with the maximum score the lexicographically first.
C7_MaxScoreLexFirst ==
    spdx_id # NoId => spdx_id = BestCandidate(licenses_detected)

\* C7 as amended: of several candidates the one chosen is the first key of
\* the mapping the matcher returns, whatever the scores and the order of
\* the identifiers; the reference looked up is that identifier's .txt file.
C7_FirstReportedChosen ==
    spdx_id # NoId =>
        /\ licenses_detected # <<>>
        /\ spdx_id = licenses_detected[1].id
        /\ reference_file_path = LICENSES_DIR \o << spdx_id \o <<".txt">> >>

\* the first of two candidates is chosen although the second scores higher
C7_Witness ==
    /\ spdx_id # NoId
    /\ Len(licenses_detected) >= 2
    /\ licenses_detected[2].score > licenses_detected[1].score
    /\ spdx_id = licenses_detected[1].id

(***************************************************************************)
(* C8                                                                      *)
(***************************************************************************)
IsRealLine(e) == e.num > 0

\* the lines one side of the table shows, in order
FromSide(rows) == SelectSeq([k \in DOMAIN rows |-> rows[k].from], IsRealLine)

ToSide(rows) == SelectSeq([k \in DOMAIN rows |-> rows[k].to], IsRealLine)

TextsOf(entries) == [k \in DOMAIN entries |-> entries[k].text]

\* the rows within numlines rows of a changed row
NearChange(rows) ==
    { p \in DOMAIN rows :
        \E q \in DOMAIN rows : rows[q].flag /\ p - q <= numlines /\ q - p <= numlines }

RECURSIVE RowsAt(_, _, _)
RowsAt(rows, keep, p) ==
    IF p > Len(rows) THEN <<>>
    ELSE (IF p \in keep THEN <<rows[p]>> ELSE <<>>) \o RowsAt(rows, keep, p + 1)

\* C8 as stated: the reference-side lines of the comparison, read in order,
\* are the lines of the reference text, and the fetched-side lines those of
\* the fetched text.
C8_LosslessAlignment ==
    pc = "done" =>
        /\ TextsOf(FromSide(diff)) = reference_license
        /\ TextsOf(ToSide(diff)) = fetched_license

\* C8 as amended: the full line alignment of the two texts is lossless, but
\* the comparison produced keeps of it only the changed rows and the
\* unchanged rows within 3 rows of a changed one; the lines it shows are
\* lines of the texts under their own numbers, in order, none twice; and
\* comparing a text with itself yields no row.
C8_ContextAlignment ==
    pc = "done" =>
        LET full == FullRows(reference_license, fetched_license)
        IN  /\ TextsOf(FromSide(full)) = reference_license
            /\ TextsOf(ToSide(full)) = fetched_license
            /\ diff = RowsAt(full, NearChange(full), 1)
            /\ \A k \in DOMAIN FromSide(diff) :
                /\ FromSide(diff)[k].text = reference_license[FromSide(diff)[k].num]
                /\ k > 1 => FromSide(diff)[k - 1].num < FromSide(diff)[k].num
            /\ \A k \in DOMAIN ToSide(diff) :
                /\ ToSide(diff)[k].text = fetched_license[ToSide(diff)[k].num]
                /\ k > 1 => ToSide(diff)[k - 1].num < ToSide(diff)[k].num
            /\ reference_license = fetched_license => diff = <<>>

\* a comparison that shows a change and leaves out a line of the reference
C8_Witness ==
    /\ pc = "done"
    /\ diff # <<>>
    /\ Len(FromSide(diff)) < Len(reference_license)

(***************************************************************************)
(* C9                                                                      *)
(***************************************************************************)
\* C9: requests.get is called only for a URL that passed the check, at most
\* once, with the URL validate_and_map_url returned; a request rejected with
\* InvalidLicenseURL makes no call.
C9_FetchAfterValidation ==
    /\ Len(requested) <= 1
    /\ \A i \in DOMAIN requested :
        /\ HasValidEnding(license_url_in)
        /\ requested[i] = validate_and_map_url(license_url_in).url
    /\ outcome = "InvalidLicenseURL" => requested = <<>>
    /\ ~HasValidEnding(license_url_in) => requested = <<>>

\* the URL fetched is the rewritten one, not the one submitted
C9_Witness ==
    /\ requested # <<>>
    /\ requested[1] # license_url_in
    /\ UrlHost(requested[1]) = RawHost

=============================================================================
